---- MODULE Spec2Model ----
(***************************************************************************)
(* A model of the online-news-api gateway: the tier policy, the hourly     *)
(* rate limiter shared by concurrent request handlers, the request         *)
(* handlers with the responses they build, the Elasticsearch query         *)
(* builder, the mapping of the backend's documents to articles and         *)
(* trending items, and the tier-based content gate.                        *)
(*                                                                         *)
(* Strings are sequences of one-character tokens, so that case mapping,    *)
(* concatenation, truncation and number formatting are computed and not    *)
(* assumed.                                                                *)
(***************************************************************************)
EXTENDS Integers, Sequences, FiniteSets, TLC

VARIABLES
    clock,      \* wall clock (Utc::now), in whole hours since the epoch of the model
    entries,    \* RateLimiter.entries: key -> RateLimitEntry (DashMap)
    pc,         \* per worker: position of the request it is serving
    req,        \* per worker: the request (operation, user header, tier header)
    tnow,       \* per worker: `now` as read at the top of RateLimiter::check
    chk,        \* per worker: what its call of RateLimiter::check did and returned
    reply,      \* per worker: what the backend answered to its query
    resp,       \* per worker: the HTTP response it built
    nreq,       \* number of requests accepted so far
    tally,      \* history: per (key, window) the check calls made and admitted
    run,        \* history: per key the window of its last check and the admissions
                \* of the unbroken run of checks in that window
    label,      \* tier resolution: the X-RapidAPI-Subscription header under test
    tierOut,    \* tier resolution: the tier get_tier resolved
    params,     \* query builder: NewsSearchParams
    maxSize,    \* query builder: max_size handed to EsRepository::search
    body,       \* query builder: the request body built
    article,    \* content gate: the article as mapped from the backend
    gateTier,   \* content gate: the caller's tier
    gated,      \* content gate: gate_article(article, tier)
    gated2,     \* content gate: gate_article applied to `gated` again
    json,       \* service: the document EsRepository::execute returned
    svcOp,      \* service: the operation served from it
    svcTier,    \* service: the caller's tier
    svcOut      \* service: what the NewsService method returned

vars == <<clock, entries, pc, req, tnow, chk, reply, resp, nreq, tally, run,
          label, tierOut, params, maxSize, body, article, gateTier, gated, gated2,
          json, svcOp, svcTier, svcOut>>

rateVars  == <<clock, entries, pc, req, tnow, chk, reply, resp, nreq, tally, run>>
tierVars  == <<label, tierOut>>
queryVars == <<params, maxSize, body>>
gateVars  == <<article, gateTier, gated, gated2>>
svcVars   == <<json, svcOp, svcTier, svcOut>>

\* Option: None is the empty sequence, Some(x) the sequence of x alone
None == <<>>
Some(x) == <<x>>

-----------------------------------------------------------------------------
(* Bounds of the model *)

MaxReq == 3             \* requests accepted in one behaviour
MaxNow == 3             \* last hour the clock reaches
HoursPerDay == 2        \* hours in a (scaled) day
DaysPerYear == 2        \* days in a (scaled) year
RateLimitBasic == 1     \* config.rate_limit_basic
RateLimitPro == 2       \* config.rate_limit_pro
RateLimitUltra == 2     \* config.rate_limit_ultra
RateLimitMega == 3      \* config.rate_limit_mega
WordBits == 16          \* bits of the (scaled) u64

\* the worker threads of the HTTP server
Procs == {"w1", "w2"}

-----------------------------------------------------------------------------
(* Strings *)

RECURSIVE Flatten(_)
Flatten(ss) == IF ss = <<>> THEN <<>> ELSE Head(ss) \o Flatten(Tail(ss))

RECURSIVE Digits(_)
Digits(n) == IF n < 10 THEN <<n>> ELSE Append(Digits(n \div 10), n % 10)

DigitString(ds) ==
    [i \in 1..Len(ds) |-> <<"0", "1", "2", "3", "4", "5", "6", "7", "8", "9">>[ds[i] + 1]]

\* u64::to_string
to_string(n) == DigitString(Digits(n))

\* zero-padded decimal of a fixed width, as chrono's %H and %j print
RECURSIVE Pad(_, _)
Pad(ds, width) == IF Len(ds) >= width THEN ds ELSE Pad(<<0>> \o ds, width)

RECURSIVE ParseDigits(_)
ParseDigits(ds) ==
    IF ds = <<>> THEN 0 ELSE ParseDigits(SubSeq(ds, 1, Len(ds) - 1)) * 10 + ds[Len(ds)]

LowerLetters == <<"a", "b", "c", "e", "g", "i", "l", "m", "o", "p", "r", "s", "t", "u", "x">>
UpperLetters == <<"A", "B", "C", "E", "G", "I", "L", "M", "O", "P", "R", "S", "T", "U", "X">>

\* two characters outside ASCII whose upper-case form is ASCII
LongS == "long_s"       \* U+017F, upper-cased to S
SharpS == "sharp_s"     \* U+00DF, upper-cased to SS

\* char::to_uppercase
UpperOfChar(c) ==
    IF \E i \in 1..Len(LowerLetters) : LowerLetters[i] = c
    THEN <<UpperLetters[CHOOSE i \in 1..Len(LowerLetters) : LowerLetters[i] = c]>>
    ELSE IF c = LongS THEN <<"S">>
    ELSE IF c = SharpS THEN <<"S", "S">>
    ELSE <<c>>

\* str::to_uppercase
ToUppercase(s) == Flatten([i \in 1..Len(s) |-> UpperOfChar(s[i])])

\* HeaderValue::to_str succeeds on visible ASCII only
IsVisibleAscii(s) == \A i \in 1..Len(s) : s[i] \notin {LongS, SharpS}

-----------------------------------------------------------------------------
(* Tier policy *)

Tiers == {"Basic", "Pro", "Ultra", "Mega"}

S_BASIC == <<"B", "A", "S", "I", "C">>
S_PRO == <<"P", "R", "O">>
S_ULTRA == <<"U", "L", "T", "R", "A">>
S_MEGA == <<"M", "E", "G", "A">>
S_CUSTOM == <<"C", "U", "S", "T", "O", "M">>

\* a faulty variant: the label is compared as given, without upper-casing it
from_header_case_sensitive(value) ==
    CASE value = S_PRO -> "Pro"
      [] value = S_ULTRA -> "Ultra"
      [] value = S_MEGA \/ value = S_CUSTOM -> "Mega"
      [] OTHER -> "Basic"

from_header(value) ==
    LET u == ToUppercase(value)
    IN  CASE u = S_PRO -> "Pro"
          [] u = S_ULTRA -> "Ultra"
          [] u = S_MEGA \/ u = S_CUSTOM -> "Mega"
          [] OTHER -> "Basic"

name(tier) ==
    CASE tier = "Basic" -> <<"b", "a", "s", "i", "c">>
      [] tier = "Pro" -> <<"p", "r", "o">>
      [] tier = "Ultra" -> <<"u", "l", "t", "r", "a">>
      [] tier = "Mega" -> <<"m", "e", "g", "a">>

Config == [rate_limit_basic |-> RateLimitBasic, rate_limit_pro |-> RateLimitPro,
           rate_limit_ultra |-> RateLimitUltra, rate_limit_mega |-> RateLimitMega]

hourly_limit(tier, config) ==
    CASE tier = "Basic" -> config.rate_limit_basic
      [] tier = "Pro" -> config.rate_limit_pro
      [] tier = "Ultra" -> config.rate_limit_ultra
      [] tier = "Mega" -> config.rate_limit_mega

max_page_size(tier) ==
    CASE tier = "Basic" -> 10
      [] tier = "Pro" -> 25
      [] tier = "Ultra" -> 50
      [] tier = "Mega" -> 100

has_full_content(tier) == tier # "Basic"

\* a faulty variant: every tier sees the entities
has_entities_every_tier(tier) == tier \in Tiers

has_entities(tier) == tier \in {"Ultra", "Mega"}

\* handlers.rs get_tier: a missing or unreadable header is read as "BASIC"
get_tier(header) ==
    from_header(IF header # None /\ IsVisibleAscii(header[1]) THEN header[1] ELSE S_BASIC)

\* handlers.rs get_user
get_user(header) ==
    IF header # None /\ IsVisibleAscii(header[1]) THEN header[1]
    ELSE <<"a", "n", "o", "n", "y", "m", "o", "u", "s">>

-----------------------------------------------------------------------------
(* Wall clock: chrono's %H, %j and the hour-truncated timestamp *)

Hour(t) == t % HoursPerDay
DayOfYear(t) == ((t \div HoursPerDay) % DaysPerYear) + 1
Year(t) == t \div (HoursPerDay * DaysPerYear)

\* now.format("%H").to_string().parse::<u32>().unwrap_or(0)
current_hour(now) == ParseDigits(Pad(Digits(Hour(now)), 2))

\* now.format("%j").to_string().parse::<u32>().unwrap_or(0)
current_day(now) == ParseDigits(Pad(Digits(DayOfYear(now)), 3))

\* (now + 1 hour).format("%Y-%m-%dT%H:00:00Z"): the top of the next hour
\* (the model's calendar has no months: the date part is the day of the year)
reset_at(now) ==
    to_string(Year(now + 1)) \o <<"-">> \o DigitString(Pad(Digits(DayOfYear(now + 1)), 3))
    \o <<"T">> \o DigitString(Pad(Digits(Hour(now + 1)), 2)) \o <<":00:00Z">>

-----------------------------------------------------------------------------
(* Errors and responses *)

RateLimitExceeded(tier, limit, at) ==
    [kind |-> "RateLimitExceeded", tier |-> tier, limit |-> limit, reset_at |-> at]
Elasticsearch(msg) == [kind |-> "Elasticsearch", msg |-> msg]
NotFound(msg) == [kind |-> "NotFound", msg |-> msg]

NoHeaders == [h \in {} |-> <<>>]

H_Limit == "X-RateLimit-Limit"
H_Remaining == "X-RateLimit-Remaining"
H_Reset == "X-RateLimit-Reset"
H_Tier == "X-Subscription-Tier"

ErrorBody(code, message) ==
    [success |-> FALSE, error |-> [code |-> code, message |-> message]]

\* AppError::to_response
to_response(err) ==
    CASE err.kind = "NotFound" ->
            [status |-> 404, headers |-> NoHeaders, body |-> ErrorBody(404, err.msg)]
      [] err.kind = "Elasticsearch" ->
            [status |-> 500, headers |-> NoHeaders,
             body |-> ErrorBody(500, <<"Service temporarily unavailable: ">> \o err.msg)]
      [] err.kind = "RateLimitExceeded" ->
            [status |-> 429,
             headers |-> (H_Limit :> to_string(err.limit)) @@ (H_Remaining :> <<"0">>)
                         @@ (H_Reset :> err.reset_at),
             body |-> ErrorBody(429,
                        <<"Rate limit exceeded. Your ">> \o err.tier
                        \o <<" plan allows ">> \o to_string(err.limit)
                        \o <<" requests per hour. Resets at ">> \o err.reset_at
                        \o <<". Upgrade your plan for higher limits.">>)]

\* ResponseBuilder::ok
ok(data) ==
    [status |-> 200, headers |-> NoHeaders,
     body |-> [success |-> TRUE, data |-> data, meta |-> None]]

\* a faulty variant: the tier header is left out
with_rate_headers_no_tier(r, limit, remaining, at, tier) ==
    [r EXCEPT !.headers = (H_Limit :> to_string(limit))
                          @@ (H_Remaining :> to_string(remaining))
                          @@ (H_Reset :> at) @@ r.headers]

\* ResponseBuilder::with_rate_headers
with_rate_headers(r, limit, remaining, at, tier) ==
    [r EXCEPT !.headers = (H_Limit :> to_string(limit))
                          @@ (H_Remaining :> to_string(remaining))
                          @@ (H_Reset :> at) @@ (H_Tier :> tier) @@ r.headers]

-----------------------------------------------------------------------------
(* RateLimiter *)

\* a faulty variant: the key is the user alone
Key_of_user(user, tier) == user

\* format!("{}:{}", user, tier.name())
Key(user, tier) == user \o <<":">> \o name(tier)

\* a faulty variant: a reset only when both the hour and the day differ
StaleBoth(entry, hour, day) == entry.hour # hour /\ entry.day # day

\* rate_limiter.rs line 48
Stale(entry, hour, day) == entry.hour # hour \/ entry.day # day

\* a faulty variant: one request too many is let through
ExceededOffByOne(count, limit) == count > limit

\* rate_limiter.rs line 54
Exceeded(count, limit) == count >= limit

\* a faulty variant: the count is incremented before it is compared
admit_increment_first(entry, tier, limit, now) ==
    LET e == [entry EXCEPT !.count = @ + 1]
    IN  IF e.count > limit
        THEN [entry |-> e,
              result |-> [ok |-> FALSE, err |-> RateLimitExceeded(name(tier), limit, reset_at(now))]]
        ELSE [entry |-> e,
              result |-> [ok |-> TRUE, limit |-> limit, remaining |-> limit - e.count]]

\* rate_limiter.rs lines 54-67: reject without touching the entry, or count the request
admit(entry, tier, limit, now) ==
    IF Exceeded(entry.count, limit)
    THEN [entry |-> entry,
          result |-> [ok |-> FALSE, err |-> RateLimitExceeded(name(tier), limit, reset_at(now))]]
    ELSE LET e == [entry EXCEPT !.count = @ + 1]
         IN  [entry |-> e,
              result |-> [ok |-> TRUE, limit |-> limit, remaining |-> limit - e.count]]

\* rate_limiter.rs lines 41-52: entry(key).or_insert(..), then the lazy reset
window_entry(ents, key, hour, day) ==
    LET e == IF key \in DOMAIN ents THEN ents[key]
             ELSE [count |-> 0, hour |-> hour, day |-> day]
    IN  IF Stale(e, hour, day) THEN [count |-> 0, hour |-> hour, day |-> day] ELSE e

\* rate_limiter.rs lines 36-67, for `now` as read at line 35: everything from
\* entry(key) on runs under the lock of the key's shard
check(ents, user, tier, now) ==
    LET limit == hourly_limit(tier, Config)
        key == Key(user, tier)
        hour == current_hour(now)
        day == current_day(now)
        a == admit(window_entry(ents, key, hour, day), tier, limit, now)
    IN  [key |-> key, hour |-> hour, day |-> day, limit |-> limit,
         before |-> IF key \in DOMAIN ents THEN Some(ents[key]) ELSE None,
         after |-> a.entry, result |-> a.result]

-----------------------------------------------------------------------------
(* The backend, as EsRepository::execute and EsRepository::health see it *)

ErrorBodies == {<<"{\"type\":\"index_not_found_exception\"}">>,
                <<"{\"type\":\"search_phase_execution_exception\"}">>}

Totals == {0, 12}

\* what the backend call of operation op can come to
Replies(op) ==
    {[kind |-> "send_failed", text |-> <<"timed out">>, total |-> 0, found |-> FALSE],
     [kind |-> "bad_json", text |-> <<"expected value">>, total |-> 0, found |-> FALSE]}
    \cup {[kind |-> "error", text |-> b, total |-> 0, found |-> FALSE] : b \in ErrorBodies}
    \cup {[kind |-> "json", text |-> <<>>, total |-> t, found |-> f] :
            t \in IF op \in {"search", "stats"} THEN Totals ELSE {0},
            f \in IF op = "article" THEN BOOLEAN ELSE {TRUE}}

\* EsRepository::execute: Ok(json), or the Elasticsearch error it maps the failure to
execute(r) ==
    CASE r.kind = "send_failed" ->
            [ok |-> FALSE, err |-> Elasticsearch(<<"Request failed: ">> \o r.text)]
      [] r.kind = "bad_json" ->
            [ok |-> FALSE, err |-> Elasticsearch(<<"Parse failed: ">> \o r.text)]
      [] r.kind = "error" -> [ok |-> FALSE, err |-> Elasticsearch(r.text)]
      [] r.kind = "json" -> [ok |-> TRUE, json |-> r]

\* NewsService::search .. trending over the repository: the payload, or the error
service(op, r) ==
    LET x == execute(r)
    IN  IF ~x.ok THEN x
        ELSE CASE op = "search" -> [ok |-> TRUE, data |-> <<"articles">>, total |-> r.total]
               [] op = "article" ->
                    IF r.found THEN [ok |-> TRUE, data |-> <<"article">>, total |-> 0]
                    ELSE [ok |-> FALSE, err |-> NotFound(<<"Article '", "id", "' not found">>)]
               [] op = "sources" -> [ok |-> TRUE, data |-> <<"sources">>, total |-> 0]
               [] op = "stats" -> [ok |-> TRUE, data |-> <<"stats">>, total |-> r.total]
               [] op = "trending" -> [ok |-> TRUE, data |-> <<"trending">>, total |-> 0]

\* a panic unwinds the handler: nothing is built
Panic(msg) == [panic |-> msg]

\* u64 `a / b`: a division by zero panics in every build
div_u64(a, b) == IF b = 0 THEN None ELSE Some(a \div b)

\* ResponseBuilder::ok_paged: the response, or the panic of line 39
ok_paged(data, page, size, total) ==
    LET total_pages == IF total > 0 THEN div_u64(total + size - 1, size) ELSE Some(0)
    IN  IF total_pages = None THEN Panic("attempt to divide by zero")
        ELSE [status |-> 200, headers |-> NoHeaders,
              body |-> [success |-> TRUE, data |-> data,
                        meta |-> Some([page |-> page, size |-> size, total |-> total,
                                       total_pages |-> total_pages[1]])]]

Max(a, b) == IF a >= b THEN a ELSE b
Min(a, b) == IF a <= b THEN a ELSE b
UnwrapOr(o, d) == IF o = None THEN d ELSE o[1]

\* u64: the largest value of the (scaled) word
U64Max == 2 ^ WordBits - 1

\* u64 `a * b`: with overflow checks (a debug build) an overflow panics,
\* without (a release build) the product wraps
mul_u64(a, b, overflow_checks) ==
    IF a * b <= U64Max THEN Some(a * b)
    ELSE IF overflow_checks THEN None
    ELSE Some((a * b) % (U64Max + 1))

\* params.page.unwrap_or(1).max(1)
effective_page(page) == Max(UnwrapOr(page, 1), 1)

\* a faulty variant: the size is taken as requested
effective_size_as_requested(size, max_size) == UnwrapOr(size, 10)

\* params.size.unwrap_or(10).min(max_size)
effective_size(size, max_size) == Min(UnwrapOr(size, 10), max_size)

-----------------------------------------------------------------------------
(* Requests *)

CheckedOps == {"search", "article", "sources", "stats", "trending"}
Ops == {"health"} \cup CheckedOps

\* the X-RapidAPI-User and X-RapidAPI-Subscription headers of the requests served
UserHeaders == {None, Some(<<"a">>)}
TierHeaders == {None, Some(<<"p", "r", "o">>)}

NoRequest == [op |-> "none", user |-> None, sub |-> None, page |-> None, size |-> None]

\* the requests the handlers are given: every operation, and a search for
\* pages of no hits (size=0)
Requests ==
    {[op |-> o, user |-> Some(<<"a">>), sub |-> t, page |-> None, size |-> None] :
        o \in Ops, t \in TierHeaders}
    \cup {[op |-> "search", user |-> Some(<<"a">>), sub |-> t, page |-> None,
           size |-> Some(0)] : t \in TierHeaders}

RateIdle ==
    /\ clock = 0
    /\ entries = [k \in {} |-> None]
    /\ pc = [p \in Procs |-> "idle"]
    /\ req = [p \in Procs |-> NoRequest]
    /\ tnow = [p \in Procs |-> 0]
    /\ chk = [p \in Procs |-> None]
    /\ reply = [p \in Procs |-> None]
    /\ resp = [p \in Procs |-> None]
    /\ nreq = 0
    /\ tally = [k \in {} |-> None]
    /\ run = [k \in {} |-> None]

\* a handler reduced to its first step, check_rate_limit(req, limiter): the
\* callers of the limiter, on any worker at any time
Call(p) ==
    /\ pc[p] = "idle"
    /\ nreq < MaxReq
    /\ \E u \in UserHeaders, t \in TierHeaders :
         req' = [req EXCEPT ![p] = [NoRequest EXCEPT !.op = "check", !.user = u, !.sub = t]]
    /\ pc' = [pc EXCEPT ![p] = "start"]
    /\ nreq' = nreq + 1
    /\ UNCHANGED <<clock, entries, tnow, chk, reply, resp, tally, run>>

\* check_rate_limit returns to such a caller
Return(p) ==
    /\ pc[p] = "checked"
    /\ req[p].op = "check"
    /\ pc' = [pc EXCEPT ![p] = "idle"]
    /\ req' = [req EXCEPT ![p] = NoRequest]
    /\ tnow' = [tnow EXCEPT ![p] = 0]
    /\ chk' = [chk EXCEPT ![p] = None]
    /\ UNCHANGED <<clock, entries, reply, resp, nreq, tally, run>>

\* the routing collaborator hands a request to a free worker; the requests of
\* this action are served one at a time
Arrive(p) ==
    /\ \A q \in Procs : pc[q] = "idle"
    /\ nreq < MaxReq
    /\ \E r \in Requests : req' = [req EXCEPT ![p] = r]
    /\ pc' = [pc EXCEPT ![p] = "start"]
    /\ nreq' = nreq + 1
    /\ UNCHANGED <<clock, entries, tnow, chk, reply, resp, tally, run>>

\* handlers.rs health: no rate check; a failed health call reads "unavailable"
Health(p) ==
    /\ pc[p] = "start"
    /\ req[p].op = "health"
    /\ \E st \in {Some(<<"green">>), None} :
         /\ reply' = [reply EXCEPT ![p] = Some([kind |-> "health", text |-> UnwrapOr(st, <<>>),
                                                total |-> 0, found |-> st # None])]
         /\ resp' = [resp EXCEPT ![p] =
                        Some(ok(<<"ok", "1.1.0">> \o UnwrapOr(st, <<"unavailable">>)))]
    /\ pc' = [pc EXCEPT ![p] = "done"]
    /\ UNCHANGED <<clock, entries, req, tnow, chk, nreq, tally, run>>

\* rate_limiter.rs line 35: `now` is read before the entry is locked
ReadClock(p) ==
    /\ pc[p] = "start"
    /\ req[p].op # "health"
    /\ tnow' = [tnow EXCEPT ![p] = clock]
    /\ pc' = [pc EXCEPT ![p] = "locking"]
    /\ UNCHANGED <<clock, entries, req, chk, reply, resp, nreq, tally, run>>

PutEntry(ents, key, e) == [k \in DOMAIN ents \cup {key} |-> IF k = key THEN e ELSE ents[k]]

\* the admissions of the unbroken run of the key's checks in window w
RunOf(key, w) == IF key \in DOMAIN run /\ run[key].win = w THEN run[key].admitted ELSE 0

TallyOf(key, w) ==
    IF <<key, w>> \in DOMAIN tally THEN tally[<<key, w>>] ELSE [calls |-> 0, admitted |-> 0]

\* rate_limiter.rs lines 36-67, run under the lock of the key's shard
CheckLocked(p) ==
    /\ pc[p] = "locking"
    /\ \E tier \in {get_tier(req[p].sub)} :
       \E c \in {check(entries, get_user(req[p].user), tier, tnow[p])} :
       \E n \in {IF c.result.ok THEN 1 ELSE 0}, t \in {TallyOf(c.key, tnow[p])} :
           /\ entries' = PutEntry(entries, c.key, c.after)
           /\ chk' = [chk EXCEPT ![p] =
                        Some([key |-> c.key, tier |-> tier, win |-> tnow[p], hour |-> c.hour,
                              day |-> c.day, limit |-> c.limit, before |-> c.before,
                              after |-> c.after, result |-> c.result,
                              prior |-> RunOf(c.key, tnow[p])])]
           /\ tally' = PutEntry(tally, <<c.key, tnow[p]>>,
                                [calls |-> t.calls + 1, admitted |-> t.admitted + n,
                                 limit |-> c.limit])
           /\ run' = PutEntry(run, c.key,
                              [win |-> tnow[p], admitted |-> RunOf(c.key, tnow[p]) + n])
    /\ pc' = [pc EXCEPT ![p] = "checked"]
    /\ UNCHANGED <<clock, req, tnow, reply, resp, nreq>>

\* a faulty variant: the backend is queried before the rejection is returned
RejectAfterQuery(p) ==
    /\ pc[p] = "checked"
    /\ req[p].op \in CheckedOps
    /\ ~chk[p][1].result.ok
    /\ \E rep \in Replies(req[p].op) : reply' = [reply EXCEPT ![p] = Some(rep)]
    /\ resp' = [resp EXCEPT ![p] = Some(to_response(chk[p][1].result.err))]
    /\ pc' = [pc EXCEPT ![p] = "done"]
    /\ UNCHANGED <<clock, entries, req, tnow, chk, nreq, tally, run>>

\* handlers.rs `Err(e) => return e.to_response()` after check_rate_limit
Reject(p) ==
    /\ pc[p] = "checked"
    /\ req[p].op \in CheckedOps
    /\ ~chk[p][1].result.ok
    /\ resp' = [resp EXCEPT ![p] = Some(to_response(chk[p][1].result.err))]
    /\ pc' = [pc EXCEPT ![p] = "done"]
    /\ UNCHANGED <<clock, entries, req, tnow, chk, reply, nreq, tally, run>>

\* what the client of a handler that panicked gets: the connection is closed
\* and no response is sent (status 0)
Unwound(panic) == [status |-> 0, headers |-> NoHeaders, body |-> panic]

\* RateLimiter::reset_time, read when the response is built
reset_time == reset_at(clock)

\* handlers.rs search_news .. get_trending after an admitted check: the service
\* call, then the response with the rate headers, or the error's response
handle(r, c, rep) ==
    LET s == service(r.op, rep)
        page == effective_page(r.page)
        size == effective_size(r.size, max_page_size(c.tier))
        built == IF r.op = "search" THEN ok_paged(s.data, page, size, s.total) ELSE ok(s.data)
    IN  IF ~s.ok THEN to_response(s.err)
        ELSE IF "panic" \in DOMAIN built THEN Unwound(built)
        ELSE with_rate_headers(built, c.result.limit, c.result.remaining, reset_time,
                               name(c.tier))

Backend(p) ==
    /\ pc[p] = "checked"
    /\ req[p].op \in CheckedOps
    /\ chk[p][1].result.ok
    /\ \E rep \in Replies(req[p].op) :
         /\ reply' = [reply EXCEPT ![p] = Some(rep)]
         /\ resp' = [resp EXCEPT ![p] = Some(handle(req[p], chk[p][1], rep))]
    /\ pc' = [pc EXCEPT ![p] = "done"]
    /\ UNCHANGED <<clock, entries, req, tnow, chk, nreq, tally, run>>

\* a faulty variant: the count of the request's key is taken back
DisconnectRollingBack(p) ==
    /\ pc[p] = "checked"
    /\ req[p].op \in CheckedOps
    /\ chk[p][1].result.ok
    /\ entries' = [entries EXCEPT ![chk[p][1].key].count = @ - 1]
    /\ pc' = [pc EXCEPT ![p] = "idle"]
    /\ req' = [req EXCEPT ![p] = NoRequest]
    /\ tnow' = [tnow EXCEPT ![p] = 0]
    /\ chk' = [chk EXCEPT ![p] = None]
    /\ UNCHANGED <<clock, reply, resp, nreq, tally, run>>

\* the caller goes away while the handler awaits the backend: the handler's
\* future is dropped and nothing more of it runs
Disconnect(p) ==
    /\ pc[p] = "checked"
    /\ req[p].op \in CheckedOps
    /\ chk[p][1].result.ok
    /\ pc' = [pc EXCEPT ![p] = "idle"]
    /\ req' = [req EXCEPT ![p] = NoRequest]
    /\ tnow' = [tnow EXCEPT ![p] = 0]
    /\ chk' = [chk EXCEPT ![p] = None]
    /\ UNCHANGED <<clock, entries, reply, resp, nreq, tally, run>>

\* the response is sent and the worker is free again
Reply(p) ==
    /\ pc[p] = "done"
    /\ pc' = [pc EXCEPT ![p] = "idle"]
    /\ req' = [req EXCEPT ![p] = NoRequest]
    /\ tnow' = [tnow EXCEPT ![p] = 0]
    /\ chk' = [chk EXCEPT ![p] = None]
    /\ reply' = [reply EXCEPT ![p] = None]
    /\ resp' = [resp EXCEPT ![p] = None]
    /\ UNCHANGED <<clock, entries, nreq, tally, run>>

\* a year of the (scaled) calendar, in hours
YearHours == HoursPerDay * DaysPerYear

\* a caller of the limiter when no other call is under way
CallAlone(p) ==
    /\ \A q \in Procs : pc[q] = "idle"
    /\ Call(p)

\* any time up to a year passes between two calls
Elapse ==
    /\ \A q \in Procs : pc[q] = "idle"
    /\ \E d \in 1..YearHours :
         /\ clock + d <= YearHours + 1
         /\ clock' = clock + d
    /\ UNCHANGED <<entries, pc, req, tnow, chk, reply, resp, nreq, tally, run>>

\* an hour of wall-clock time passes
Tick ==
    /\ clock < MaxNow
    /\ clock' = clock + 1
    /\ UNCHANGED <<entries, pc, req, tnow, chk, reply, resp, nreq, tally, run>>

-----------------------------------------------------------------------------
(* EsRepository::search: the query document built from NewsSearchParams *)

Term(field, v) == [clause |-> "term", field |-> field, value |-> v]
MultiMatch(q) ==
    [clause |-> "multi_match", field |-> "title^3,content", value |-> q]
Range(from, to) == [clause |-> "range", field |-> "ingested_at", value |-> from \o to]

\* elasticsearch.rs lines 95-106: the scoring clause of a non-empty text query
must_clauses(ps) ==
    IF ps.q # None /\ ps.q[1] # <<>> THEN <<MultiMatch(ps.q[1])>> ELSE <<>>

\* elasticsearch.rs lines 108-119: the term filters and the date range
filter_clauses(ps) ==
    (IF ps.source # None THEN <<Term("source", ps.source[1])>> ELSE <<>>)
    \o (IF ps.tag # None THEN <<Term("tags", ps.tag[1])>> ELSE <<>>)
    \o (IF ps.sentiment # None
        THEN <<Term("annotate.sentiment.label.keyword", ps.sentiment[1])>> ELSE <<>>)
    \o (IF ps.emotion # None
        THEN <<Term("annotate.emotion.label.keyword", ps.emotion[1])>> ELSE <<>>)
    \o (IF ps.author # None THEN <<Term("author", ps.author[1])>> ELSE <<>>)
    \o (IF ps.date_from # None \/ ps.date_to # None
        THEN <<Range(IF ps.date_from # None THEN <<"gte">> \o ps.date_from[1] ELSE <<>>,
                     IF ps.date_to # None THEN <<"lte">> \o ps.date_to[1] ELSE <<>>)>>
        ELSE <<>>)

\* elasticsearch.rs lines 121-128
query_of(must, filter) ==
    IF must = <<>> /\ filter = <<>>
    THEN [kind |-> "match_all", must |-> <<>>, filter |-> <<>>]
    ELSE [kind |-> "bool", must |-> must, filter |-> filter]

SortScore == <<"_score">>
SortIngested(order) == <<"ingested_at", "order", order>>

\* elasticsearch.rs lines 130-134
sort_of(ps) ==
    CASE ps.sort = Some("oldest") -> SortIngested("asc")
      [] ps.sort = Some("relevance") /\ ps.q # None -> SortScore
      [] OTHER -> SortIngested("desc")

\* elasticsearch.rs lines 88-142: the body sent to the backend, or the panic of
\* line 90
search_body(ps, max_size, overflow_checks) ==
    LET page == effective_page(ps.page)
        size == effective_size(ps.size, max_size)
        from == mul_u64(page - 1, size, overflow_checks)
    IN  IF from = None THEN Panic("attempt to multiply with overflow")
        ELSE [query |-> query_of(must_clauses(ps), filter_clauses(ps)),
              sort |-> sort_of(ps),
              from |-> from[1],
              size |-> size,
              track_total_hits |-> TRUE]

NoFilters ==
    [source |-> None, tag |-> None, sentiment |-> None, emotion |-> None, author |-> None]

\* the filter parameters of the requests built: none, each alone, all
FilterSets ==
    {NoFilters,
     [NoFilters EXCEPT !.source = Some(<<"s">>)],
     [NoFilters EXCEPT !.tag = Some(<<"t">>)],
     [NoFilters EXCEPT !.sentiment = Some(<<"positive">>)],
     [NoFilters EXCEPT !.emotion = Some(<<"joy">>)],
     [NoFilters EXCEPT !.author = Some(<<"x">>)],
     [source |-> Some(<<"s">>), tag |-> Some(<<"t">>), sentiment |-> Some(<<"positive">>),
      emotion |-> Some(<<"joy">>), author |-> Some(<<"x">>)]}

\* the search parameters of the requests built; their pages are small, so that
\* the offset fits the word in every build (the other pages: PagingParams)
SearchParams ==
    {[q |-> q, source |-> f.source, tag |-> f.tag, sentiment |-> f.sentiment,
      emotion |-> f.emotion, author |-> f.author, date_from |-> df, date_to |-> dt,
      sort |-> so, page |-> pg, size |-> sz] :
        q \in {None, Some(<<>>), Some(<<"b", "a", "l", "i">>)},
        f \in FilterSets,
        df \in {None, Some(<<"2024-01-01">>)},
        dt \in {None, Some(<<"2024-12-31">>)},
        so \in {None, Some("newest"), Some("oldest"), Some("relevance"), Some("other")},
        pg \in {None, Some(0), Some(2)},
        sz \in {None, Some(999)}}

QueryInit ==
    /\ params \in {Some(ps) : ps \in SearchParams}
    /\ maxSize \in {max_page_size(t) : t \in Tiers}
    /\ body = None

\* NewsService::search hands the parameters and the tier's cap to the repository,
\* in a build with or without overflow checks
BuildQuery ==
    /\ body = None
    /\ \E overflow_checks \in BOOLEAN :
         body' = Some(search_body(params[1], maxSize, overflow_checks))
    /\ UNCHANGED <<params, maxSize>>

\* C7: the built sort is by score only when sort=relevance comes with a text
\* query, that is only when the built query holds the scoring multi-match
\* clause; a request with sort=relevance whose built query has no text clause
\* is sorted by descending ingestion time
HasTextClause(b) ==
    \E i \in 1..Len(b.query.must) : b.query.must[i].clause = "multi_match"

C7_ScoreSortOnlyWithTextClause ==
    body # None =>
        /\ body[1].sort = SortScore =>
                params[1].sort = Some("relevance") /\ HasTextClause(body[1])
        /\ params[1].sort = Some("relevance") /\ ~HasTextClause(body[1]) =>
                body[1].sort = SortIngested("desc")

\* C12: the size sent to the backend is min(requested size or 10, the tier's
\* maximum page size) and the offset is (max(page, 1) - 1) times that size; in
\* particular page=2, size=999 for tier Basic is served with size 10 and
\* offset 10
C12_ClampedSizeAndOffset ==
    body # None =>
        /\ \E cap \in {UnwrapOr(params[1].size, 10)}, pg \in {UnwrapOr(params[1].page, 1)} :
            /\ body[1].size = (IF cap <= maxSize THEN cap ELSE maxSize)
            /\ body[1].from = ((IF pg >= 1 THEN pg ELSE 1) - 1) * body[1].size
        /\ params[1].page = Some(2) /\ params[1].size = Some(999)
           /\ maxSize = max_page_size("Basic") =>
                body[1].size = 10 /\ body[1].from = 10

\* page=2, size=999 for tier Basic, built
C12_Witness ==
    /\ body # None
    /\ params[1].page = Some(2)
    /\ params[1].size = Some(999)
    /\ maxSize = max_page_size("Basic")
    /\ body[1].size = 10
    /\ body[1].from = 10

\* pages up to the largest a u64 holds, with those around the largest whose
\* offset fits the word for each tier's cap
WidePages ==
    {0, 1, 2, U64Max - 1, U64Max}
    \cup {U64Max \div max_page_size(t) + d : t \in Tiers, d \in 0..2}

PagingParams ==
    {[q |-> None, source |-> None, tag |-> None, sentiment |-> None, emotion |-> None,
      author |-> None, date_from |-> None, date_to |-> None, sort |-> None,
      page |-> pg, size |-> sz] :
        pg \in {None} \cup {Some(n) : n \in WidePages},
        sz \in {None, Some(0), Some(1), Some(999)}}

\* C20: for every page a u64 holds and every effective size within the tier's
\* cap, a body is built and its offset is the product (max(page, 1) - 1) * size
\* of the integers: the multiplication neither overflows nor wraps
C20_OffsetIsProduct ==
    body # None =>
        /\ "from" \in DOMAIN body[1]
        /\ body[1].from =
                (effective_page(params[1].page) - 1)
                * effective_size(params[1].size, maxSize)

-----------------------------------------------------------------------------
(* Tier resolution over the header labels *)

Words ==
    {<<>>, <<"p", "r", "o">>, <<"u", "l", "t", "r", "a">>, <<"m", "e", "g", "a">>,
     <<"c", "u", "s", "t", "o", "m">>, <<"b", "a", "s", "i", "c">>, <<"p", "r">>,
     <<"p", "r", "o", "x">>, <<"m", "e", "g", "a", " ">>, <<"g", "o", "l", "d">>,
     <<"c", "u", LongS, "t", "o", "m">>, <<"m", "e", "g", "a", SharpS>>}

\* the word with the ASCII letters at the positions of `ups` in upper case
Cased(w, ups) ==
    [i \in 1..Len(w) |->
        IF i \in ups /\ w[i] \notin {LongS, SharpS} THEN UpperOfChar(w[i])[1] ELSE w[i]]

Labels == UNION {{Cased(w, ups) : ups \in SUBSET (1..Len(w))} : w \in Words}

TierInit ==
    /\ label \in {None} \cup {Some(l) : l \in Labels}
    /\ tierOut = None

\* handlers.rs check_rate_limit: the tier of the request is resolved
Resolve ==
    /\ tierOut = None
    /\ tierOut' = Some(get_tier(label))
    /\ UNCHANGED label

\* the letter in lower case, by the alphabet alone
LowerOfChar(c) ==
    IF \E i \in 1..Len(UpperLetters) : UpperLetters[i] = c
    THEN LowerLetters[CHOOSE i \in 1..Len(UpperLetters) : UpperLetters[i] = c]
    ELSE c

SameIgnoringCase(a, b) ==
    /\ Len(a) = Len(b)
    /\ \A i \in 1..Len(a) : LowerOfChar(a[i]) = LowerOfChar(b[i])

\* C8: a label equal, ignoring case, to pro, ultra or mega resolves to that
\* tier, and every other label, as well as a missing one, resolves to Basic
C8_ThreeLabelsElseBasic ==
    tierOut # None =>
        tierOut[1] =
            IF label = None THEN "Basic"
            ELSE CASE SameIgnoringCase(label[1], S_PRO) -> "Pro"
                   [] SameIgnoringCase(label[1], S_ULTRA) -> "Ultra"
                   [] SameIgnoringCase(label[1], S_MEGA) -> "Mega"
                   [] OTHER -> "Basic"

\* C8, as amended: a label equal, ignoring case, to pro or ultra resolves to
\* that tier, one equal, ignoring case, to mega or custom resolves to Mega, and
\* every other label, as well as a missing one, resolves to Basic
C8_FourLabelsElseBasic ==
    tierOut # None =>
        tierOut[1] =
            IF label = None THEN "Basic"
            ELSE CASE SameIgnoringCase(label[1], S_PRO) -> "Pro"
                   [] SameIgnoringCase(label[1], S_ULTRA) -> "Ultra"
                   [] SameIgnoringCase(label[1], S_MEGA) -> "Mega"
                   [] SameIgnoringCase(label[1], S_CUSTOM) -> "Mega"
                   [] OTHER -> "Basic"

\* a label in mixed case that resolves to its tier
C8_Witness ==
    /\ label = Some(<<"U", "l", "T", "r", "a">>)
    /\ tierOut = Some("Ultra")

-----------------------------------------------------------------------------
(* NewsService::gate_article: the tier's view of an article *)

ContentLimit == 200     \* characters of content a tier without full content sees
MaxExtra == 3           \* lengths tried on either side of the limit, and from 0

Ellipsis == <<".", ".", ".">>

\* the characters of the contents tried, of 1, 2 and 3 bytes in UTF-8
Chars == {"a", ".", "e_acute", "ri"}
Utf8Len(c) == CASE c = "e_acute" -> 2 [] c = "ri" -> 3 [] OTHER -> 1

\* str::len: the length in bytes
Utf8Bytes(str) ==
    Cardinality({i \in 1..Len(str) : Utf8Len(str[i]) >= 1})
    + Cardinality({i \in 1..Len(str) : Utf8Len(str[i]) >= 2})
    + Cardinality({i \in 1..Len(str) : Utf8Len(str[i]) >= 3})

\* a faulty variant: the length is taken in bytes
byte_count(str) == Utf8Bytes(str)

\* str.chars().count()
chars_count(str) == Len(str)

\* str.chars().take(n).collect()
chars_take(str, n) == SubSeq(str, 1, Min(n, Len(str)))

\* a faulty variant: the marker is appended whether or not anything was cut
gate_content_always_marked(content) == chars_take(content, ContentLimit) \o Ellipsis

\* news_service.rs lines 78-83
gate_content(content) ==
    IF chars_count(content) > ContentLimit
    THEN chars_take(content, ContentLimit) \o Ellipsis
    ELSE chars_take(content, ContentLimit)

\* news_service.rs lines 74-95
gate_article(a, tier) ==
    LET c == IF ~has_full_content(tier) /\ a.content # None
             THEN Some(gate_content(a.content[1])) ELSE a.content
        n == IF ~has_entities(tier) /\ a.annotate # None
             THEN Some([a.annotate[1] EXCEPT !.entities = None]) ELSE a.annotate
    IN  [a EXCEPT !.content = c, !.annotate = n]

\* news_service.rs lines 64-72
apply_content_gating(articles, tier) ==
    [i \in 1..Len(articles) |-> gate_article(articles[i], tier)]

\* n characters: c, with the last k of them d
Filled(n, c, d, k) == [i \in 1..n |-> IF i > n - k THEN d ELSE c]

Lengths ==
    (0..MaxExtra) \cup ((ContentLimit - MaxExtra)..(ContentLimit + MaxExtra))

Contents ==
    {Filled(n, c, d, k) : n \in Lengths, c \in Chars \ {"."}, d \in {".", "ri"}, k \in {0, 3}}

Entity == [word |-> Some(<<"Jakarta">>), entity_group |-> Some(<<"LOC">>)]

Annotations ==
    {None} \cup
    {Some([sentiment |-> Some(<<"positive">>), emotion |-> em, entities |-> en,
           status |-> Some(<<"done">>)]) :
        em \in {None, Some(<<"joy">>)}, en \in {None, Some(<<>>), Some(<<Entity>>)}}

Articles ==
    {[id |-> <<"1">>, title |-> Some(<<"t">>), content |-> c, tags |-> Some(<<"x">>),
      annotate |-> n] :
        c \in {None} \cup {Some(x) : x \in Contents}, n \in Annotations}

GateInit ==
    /\ article \in {Some(a) : a \in Articles}
    /\ gateTier \in Tiers
    /\ gated = None
    /\ gated2 = None

\* NewsService::get_by_id gates the article mapped from the backend
Gate ==
    /\ gated = None
    /\ gated' = Some(gate_article(article[1], gateTier))
    /\ UNCHANGED <<article, gateTier, gated2>>

\* the gated article is gated once more for the same tier
GateAgain ==
    /\ gated # None
    /\ gated2 = None
    /\ gated2' = Some(gate_article(gated[1], gateTier))
    /\ UNCHANGED <<article, gateTier, gated>>

EndsWithEllipsis(str) ==
    Len(str) >= 3 /\ SubSeq(str, Len(str) - 2, Len(str)) = Ellipsis

\* C9: gating is idempotent: for every article and every tier, the gated
\* article gated again for the same tier is the gated article
C9_GateIdempotent == gated2 # None => gated2 = gated

\* a Basic article of more than 200 characters, cut and marked, gated again
C9_Witness ==
    /\ gated2 # None
    /\ gateTier = "Basic"
    /\ article[1].content # None
    /\ Len(article[1].content[1]) > ContentLimit
    /\ gated[1].content # article[1].content
    /\ EndsWithEllipsis(gated[1].content[1])
    /\ Len(gated[1].content[1]) > ContentLimit

\* C10: for tier Basic, content of more than 200 characters comes out as its
\* first 200 characters followed by the marker, and content of at most 200
\* characters comes out unchanged, without a marker; the 200 are characters,
\* not bytes
C10_BasicTruncation ==
    gated # None /\ gateTier = "Basic" /\ article[1].content # None =>
        \E c \in {article[1].content[1]}, g \in {gated[1].content} :
            IF Len(c) > ContentLimit
            THEN /\ g # None
                 /\ Len(g[1]) = ContentLimit + Len(Ellipsis)
                 /\ \A i \in 1..ContentLimit : g[1][i] = c[i]
                 /\ \A i \in 1..Len(Ellipsis) : g[1][ContentLimit + i] = Ellipsis[i]
            ELSE g = Some(c)

\* content of exactly 200 characters and more than 200 bytes, left as it is
C10_Witness ==
    /\ gated # None
    /\ gateTier = "Basic"
    /\ article[1].content # None
    /\ Len(article[1].content[1]) = ContentLimit
    /\ Utf8Bytes(article[1].content[1]) > ContentLimit
    /\ gated[1].content = article[1].content

-----------------------------------------------------------------------------
(* The documents of the backend and what the repository maps them to *)

MaxHits == 3            \* hits in one backend response
MaxBuckets == 2         \* buckets in one aggregation of a backend response

\* serde_json::Value: the type of the value and what it holds
JNull == [t |-> "null", v |-> <<>>]
JString(s) == [t |-> "string", v |-> s]
JNumber(n) == [t |-> "number", v |-> <<n>>]
JObject(o) == [t |-> "object", v |-> <<o>>]
JArray(a) == [t |-> "array", v |-> a]

Parsed(x) == [ok |-> TRUE, value |-> x]
Unparsed == [ok |-> FALSE, value |-> None]

\* Value::as_u64
as_u64(j) == IF j.t = "number" /\ j.v[1] >= 0 THEN Some(j.v[1]) ELSE None

\* Value::as_str
as_str(j) == IF j.t = "string" THEN Some(j.v) ELSE None

\* Deserialize for Option<String>
opt_string(j) ==
    CASE j.t = "null" -> Parsed(None)
      [] j.t = "string" -> Parsed(Some(j.v))
      [] OTHER -> Unparsed

\* Deserialize for Option<Vec<String>>
opt_strings(j) ==
    CASE j.t = "null" -> Parsed(None)
      [] j.t = "array" /\ (\A i \in 1..Len(j.v) : j.v[i].t = "string") ->
            Parsed(Some([i \in 1..Len(j.v) |-> j.v[i].v]))
      [] OTHER -> Unparsed

\* Deserialize for Option<SentimentData>, Option<EmotionData>: an object with a label
opt_label(j) ==
    CASE j.t = "null" -> Parsed(None)
      [] j.t = "object" -> Parsed(Some(j.v[1].label))
      [] OTHER -> Unparsed

\* Deserialize for Option<Vec<EntityData>>
opt_entities(j) ==
    CASE j.t = "null" -> Parsed(None)
      [] j.t = "array" -> Parsed(Some(j.v))
      [] OTHER -> Unparsed

\* Deserialize for Option<Annotation>
opt_annotation(j) ==
    CASE j.t = "null" -> Parsed(None)
      [] j.t = "object" ->
            LET s == opt_label(j.v[1].sentiment)
                e == opt_label(j.v[1].emotion)
                n == opt_entities(j.v[1].entities)
                st == opt_string(j.v[1].status)
            IN  IF s.ok /\ e.ok /\ n.ok /\ st.ok
                THEN Parsed(Some([sentiment |-> s.value, emotion |-> e.value,
                                  entities |-> n.value, status |-> st.value]))
                ELSE Unparsed
      [] OTHER -> Unparsed

\* serde_json::from_value::<NewsArticle>: the id is skipped and left empty
article_from_value(j) ==
    IF j.t # "object" THEN Unparsed
    ELSE LET ti == opt_string(j.v[1].title)
             c == opt_string(j.v[1].content)
             tg == opt_strings(j.v[1].tags)
             n == opt_annotation(j.v[1].annotate)
         IN  IF ti.ok /\ c.ok /\ tg.ok /\ n.ok
             THEN Parsed([id |-> <<>>, title |-> ti.value, content |-> c.value,
                          tags |-> tg.value, annotate |-> n.value])
             ELSE Unparsed

\* elasticsearch.rs lines 66-71: the closure of filter_map
parse_hit(hit) ==
    LET a == article_from_value(hit.hit_source)
    IN  IF ~a.ok THEN None
        ELSE Some([a.value EXCEPT !.id = UnwrapOr(as_str(hit.hit_id), <<>>)])

RECURSIVE filter_map(_)
filter_map(hits) ==
    IF hits = <<>> THEN <<>> ELSE parse_hit(Head(hits)) \o filter_map(Tail(hits))

\* EsRepository::parse_hits
parse_hits(doc) == IF doc.hits.t = "array" THEN filter_map(doc.hits.v) ELSE <<>>

\* a faulty variant: the total is the number of articles parsed
parse_total_of_parsed(doc) == Len(parse_hits(doc))

\* EsRepository::parse_total
parse_total(doc) == UnwrapOr(as_u64(doc.total), 0)

\* EsRepository::find_by_id from line 160 on
find_by_id(doc) ==
    LET articles == parse_hits(doc)
    IN  IF articles = <<>> THEN None ELSE Some(articles[1])

\* a faulty variant: ties go to the item inserted later
PrecedesOrTies(a, b) == b.count <= a.count

\* elasticsearch.rs line 220: the comparison b.count.cmp(&a.count) is Less
Precedes(a, b) == b.count < a.count

\* the stable sort of slice::sort_by, as an insertion sort
RECURSIVE InsertStable(_, _)
InsertStable(x, sorted) ==
    IF sorted = <<>> THEN <<x>>
    ELSE IF Precedes(x, Head(sorted)) THEN <<x>> \o sorted
    ELSE <<Head(sorted)>> \o InsertStable(x, Tail(sorted))

RECURSIVE sort_by(_)
sort_by(items) ==
    IF items = <<>> THEN <<>>
    ELSE InsertStable(items[Len(items)], sort_by(SubSeq(items, 1, Len(items) - 1)))

\* elasticsearch.rs lines 258-264: the item of a bucket with a string key and a count
trending_item(b, category) ==
    IF as_str(b.key) # None /\ as_u64(b.doc_count) # None
    THEN <<[keyword |-> as_str(b.key)[1], category |-> category,
            count |-> as_u64(b.doc_count)[1]]>>
    ELSE <<>>

RECURSIVE push_items(_, _)
push_items(arr, category) ==
    IF arr = <<>> THEN <<>>
    ELSE trending_item(Head(arr), category) \o push_items(Tail(arr), category)

\* EsRepository::collect_trending
collect_trending(buckets, category, items) ==
    IF buckets.t = "array" THEN items \o push_items(buckets.v, category) ELSE items

\* EsRepository::trending from line 215 on
trending(doc) ==
    sort_by(collect_trending(doc.tags, "tag",
                             collect_trending(doc.entities, "entity", <<>>)))

\* NewsService::search over EsRepository::search from line 146 on: the articles
\* parsed from the document, gated, and the total parsed from it
search(doc, tier) ==
    [ok |-> TRUE, articles |-> apply_content_gating(parse_hits(doc), tier),
     total |-> parse_total(doc)]

\* NewsService::get_by_id
get_by_id(doc, tier) ==
    LET found == find_by_id(doc)
    IN  IF found = None
        THEN [ok |-> FALSE, err |-> NotFound(<<"Article '", "id", "' not found">>)]
        ELSE [ok |-> TRUE, article |-> gate_article(found[1], tier)]

\* the _source documents of the hits: three of the article shape, one hit
\* without a _source, one with a number for a title, one with a string for the
\* annotations
LongContent == Filled(ContentLimit + 1, "a", ".", 0)

Label(l) == JObject([label |-> l])

NullSource == [title |-> JNull, content |-> JNull, tags |-> JNull, annotate |-> JNull]

Sources ==
    {JObject([title |-> JString(<<"t">>), content |-> JString(LongContent),
              tags |-> JArray(<<JString(<<"x">>)>>),
              annotate |-> JObject([sentiment |-> Label(<<"positive">>),
                                    emotion |-> Label(<<"joy">>),
                                    entities |-> JArray(<<Entity>>),
                                    status |-> JString(<<"done">>)])]),
     JObject([NullSource EXCEPT !.content = JString(<<"a", "b">>),
                                !.annotate = JObject([sentiment |-> Label(<<"negative">>),
                                                      emotion |-> JNull, entities |-> JNull,
                                                      status |-> JNull])]),
     JObject(NullSource),
     JNull,
     JObject([NullSource EXCEPT !.title = JNumber(7)]),
     JObject([NullSource EXCEPT !.annotate = JString(<<"none">>)])}

HitDocs ==
    {[hit_id |-> JString(<<"1">>), hit_source |-> s] : s \in Sources}
    \cup {[hit_id |-> JNull, hit_source |-> JObject(NullSource)]}

RECURSIVE SeqsUpTo(_, _)
SeqsUpTo(S, n) ==
    IF n = 0 THEN {<<>>}
    ELSE LET shorter == SeqsUpTo(S, n - 1)
         IN  shorter \cup {Append(q, x) : q \in shorter, x \in S}

BucketDocs ==
    {[key |-> JString(<<"x">>), doc_count |-> JNumber(5)],
     [key |-> JString(<<"y">>), doc_count |-> JNumber(5)],
     [key |-> JString(<<"y">>), doc_count |-> JNumber(7)],
     [key |-> JNumber(1), doc_count |-> JNumber(9)],
     [key |-> JString(<<"z">>), doc_count |-> JNumber(-1)]}

Buckets == {JNull} \cup {JArray(q) : q \in SeqsUpTo(BucketDocs, MaxBuckets)}

\* the documents EsRepository::execute hands back for a search or a lookup
HitResponses ==
    {[hits |-> h, total |-> t, entities |-> JNull, tags |-> JNull] :
        h \in {JNull} \cup {JArray(q) : q \in SeqsUpTo(HitDocs, MaxHits)},
        t \in {JNull, JNumber(0), JNumber(12)}}

\* and for the trending aggregation
AggResponses ==
    {[hits |-> JNull, total |-> JNull, entities |-> e, tags |-> t] :
        e \in Buckets, t \in Buckets}

SvcInit ==
    /\ svcOut = None
    /\ \/ /\ svcOp \in {"search", "article"}
          /\ svcTier \in Tiers
          /\ json \in {Some(d) : d \in HitResponses}
       \/ /\ svcOp = "trending"
          /\ svcTier = "Basic"
          /\ json \in {Some(d) : d \in AggResponses}

\* NewsService::search once the backend has answered
Search ==
    /\ svcOp = "search"
    /\ svcOut = None
    /\ svcOut' = Some(search(json[1], svcTier))
    /\ UNCHANGED <<json, svcOp, svcTier>>

\* NewsService::get_by_id once the backend has answered
GetById ==
    /\ svcOp = "article"
    /\ svcOut = None
    /\ svcOut' = Some(get_by_id(json[1], svcTier))
    /\ UNCHANGED <<json, svcOp, svcTier>>

\* NewsService::trending once the backend has answered
Trending ==
    /\ svcOp = "trending"
    /\ svcOut = None
    /\ svcOut' = Some([ok |-> TRUE, items |-> trending(json[1])])
    /\ UNCHANGED <<json, svcOp, svcTier>>

-----------------------------------------------------------------------------
(* Specifications *)

TierIdle == label = None /\ tierOut = None
QueryIdle == params = None /\ maxSize = 0 /\ body = None
GateIdle == article = None /\ gateTier = "Basic" /\ gated = None /\ gated2 = None
SvcIdle == json = None /\ svcOp = "none" /\ svcTier = "Basic" /\ svcOut = None

Init == RateIdle /\ TierIdle /\ QueryIdle /\ GateIdle /\ SvcIdle

\* The limiter shared by the workers: concurrent calls of check and the clock
Next ==
    \/ \E p \in Procs : Call(p) /\ UNCHANGED <<tierVars, queryVars, gateVars, svcVars>>
    \/ \E p \in Procs : ReadClock(p) /\ UNCHANGED <<tierVars, queryVars, gateVars, svcVars>>
    \/ \E p \in Procs : CheckLocked(p) /\ UNCHANGED <<tierVars, queryVars, gateVars, svcVars>>
    \/ \E p \in Procs : Return(p) /\ UNCHANGED <<tierVars, queryVars, gateVars, svcVars>>
    \/ Tick /\ UNCHANGED <<tierVars, queryVars, gateVars, svcVars>>

Spec == Init /\ [][Next]_vars

\* The request handlers, from the arrival of a request to its response
NextApi ==
    \/ \E p \in Procs : Arrive(p) /\ UNCHANGED <<tierVars, queryVars, gateVars, svcVars>>
    \/ \E p \in Procs : Health(p) /\ UNCHANGED <<tierVars, queryVars, gateVars, svcVars>>
    \/ \E p \in Procs : ReadClock(p) /\ UNCHANGED <<tierVars, queryVars, gateVars, svcVars>>
    \/ \E p \in Procs : CheckLocked(p) /\ UNCHANGED <<tierVars, queryVars, gateVars, svcVars>>
    \/ \E p \in Procs : Reject(p) /\ UNCHANGED <<tierVars, queryVars, gateVars, svcVars>>
    \/ \E p \in Procs : Backend(p) /\ UNCHANGED <<tierVars, queryVars, gateVars, svcVars>>
    \/ \E p \in Procs : Disconnect(p) /\ UNCHANGED <<tierVars, queryVars, gateVars, svcVars>>
    \/ \E p \in Procs : Reply(p) /\ UNCHANGED <<tierVars, queryVars, gateVars, svcVars>>
    \/ Tick /\ UNCHANGED <<tierVars, queryVars, gateVars, svcVars>>

SpecApi == Init /\ [][NextApi]_vars

\* The limiter called by one caller at a time, over more than a year
NextYear ==
    \/ \E p \in Procs : CallAlone(p) /\ UNCHANGED <<tierVars, queryVars, gateVars, svcVars>>
    \/ \E p \in Procs : ReadClock(p) /\ UNCHANGED <<tierVars, queryVars, gateVars, svcVars>>
    \/ \E p \in Procs : CheckLocked(p) /\ UNCHANGED <<tierVars, queryVars, gateVars, svcVars>>
    \/ \E p \in Procs : Return(p) /\ UNCHANGED <<tierVars, queryVars, gateVars, svcVars>>
    \/ Elapse /\ UNCHANGED <<tierVars, queryVars, gateVars, svcVars>>

SpecYear == Init /\ [][NextYear]_vars

\* The query builder over the search parameters
InitQuery == RateIdle /\ TierIdle /\ QueryInit /\ GateIdle /\ SvcIdle

NextQuery == BuildQuery /\ UNCHANGED <<rateVars, tierVars, gateVars, svcVars>>

SpecQuery == InitQuery /\ [][NextQuery]_vars

\* The query builder over the pages a u64 holds
InitPaging ==
    /\ RateIdle /\ TierIdle /\ GateIdle /\ SvcIdle
    /\ params \in {Some(ps) : ps \in PagingParams}
    /\ maxSize \in {max_page_size(t) : t \in Tiers}
    /\ body = None

SpecPaging == InitPaging /\ [][NextQuery]_vars

\* Tier resolution over the header labels
InitTier == RateIdle /\ TierInit /\ QueryIdle /\ GateIdle /\ SvcIdle

NextTier == Resolve /\ UNCHANGED <<rateVars, queryVars, gateVars, svcVars>>

SpecTier == InitTier /\ [][NextTier]_vars

\* The content gate over articles and tiers
InitGate == RateIdle /\ TierIdle /\ QueryIdle /\ GateInit /\ SvcIdle

NextGate ==
    \/ Gate /\ UNCHANGED <<rateVars, tierVars, queryVars, svcVars>>
    \/ GateAgain /\ UNCHANGED <<rateVars, tierVars, queryVars, svcVars>>

SpecGate == InitGate /\ [][NextGate]_vars

\* The service methods over the documents of the backend
InitSvc == RateIdle /\ TierIdle /\ QueryIdle /\ GateIdle /\ SvcInit

NextSvc ==
    \/ Search /\ UNCHANGED <<rateVars, tierVars, queryVars, gateVars>>
    \/ GetById /\ UNCHANGED <<rateVars, tierVars, queryVars, gateVars>>
    \/ Trending /\ UNCHANGED <<rateVars, tierVars, queryVars, gateVars>>

SpecSvc == InitSvc /\ [][NextSvc]_vars

-----------------------------------------------------------------------------
(* Claims about the rate limiter and the responses *)

Checks == {p \in Procs : chk[p] # None}
Rejections == {p \in Checks : ~chk[p][1].result.ok}
Admissions == {p \in Checks : chk[p][1].result.ok}
Done == {p \in Procs : pc[p] = "done"}
RateHeaders == {H_Limit, H_Remaining, H_Reset, H_Tier}

\* C1: for every key and every hourly window, of the n check calls made for the
\* key with the clock read in that window exactly min(n, quota) are admitted,
\* whatever the interleaving of the calls
C1_ExactlyMinAdmitted ==
    \A kw \in DOMAIN tally :
        tally[kw].admitted = Min(tally[kw].calls, tally[kw].limit)

\* C2: the check that follows exactly quota admitted checks of its key in its
\* hourly window is rejected with RateLimitExceeded, and the response of the
\* rejection reports the tier's quota and remaining = 0
C2_RejectedAfterQuota ==
    \A p \in Checks :
        chk[p][1].prior = hourly_limit(chk[p][1].tier, Config) =>
            /\ ~chk[p][1].result.ok
            /\ chk[p][1].result.err.kind = "RateLimitExceeded"
            /\ p \in Done =>
                /\ resp[p][1].status = 429
                /\ resp[p][1].headers[H_Remaining] = <<"0">>
                /\ resp[p][1].headers[H_Limit] =
                        to_string(hourly_limit(chk[p][1].tier, Config))

C2_Witness ==
    \E p \in Done :
        /\ p \in Rejections
        /\ chk[p][1].prior = hourly_limit(chk[p][1].tier, Config)
        /\ chk[p][1].prior >= 1
        /\ resp[p][1].status = 429

CountOf(e) == IF e = None THEN 0 ELSE e[1].count

\* C3: a rejected check leaves the stored count of its key as it was, and the
\* rejections of one key in one window are the same rejection, with the key's
\* tier and that tier's quota
C3_RejectionLeavesCount ==
    /\ \A p \in Rejections :
        /\ chk[p][1].after.count = CountOf(chk[p][1].before)
        /\ chk[p][1].result.err.tier = name(chk[p][1].tier)
        /\ chk[p][1].result.err.limit = hourly_limit(chk[p][1].tier, Config)
    /\ \A p, q \in Rejections :
        chk[p][1].key = chk[q][1].key /\ chk[p][1].win = chk[q][1].win
            => chk[p][1].result = chk[q][1].result

C3_Witness ==
    \E p, q \in Rejections :
        /\ p # q
        /\ chk[p][1].key = chk[q][1].key
        /\ chk[p][1].win = chk[q][1].win
        /\ chk[p][1].before # None /\ chk[p][1].before[1].count >= 1
        /\ entries[chk[p][1].key].count = chk[p][1].before[1].count

HourChanged(c) == c.before # None /\ c.before[1].hour # c.hour
DayChanged(c) == c.before # None /\ c.before[1].day # c.day

\* C4: a check that finds its key's entry stored for another hour of the day
\* or another day of the year resets the count to 0 before it decides, whatever
\* the count was: with a quota of at least 1 it is admitted, with
\* remaining = quota - 1
C4_ResetOnNewHourOrDay ==
    \A p \in Checks :
        (HourChanged(chk[p][1]) \/ DayChanged(chk[p][1])) /\ chk[p][1].limit >= 1 =>
            /\ chk[p][1].result.ok
            /\ chk[p][1].result.remaining = chk[p][1].limit - 1
            /\ chk[p][1].after =
                   [count |-> 1, hour |-> chk[p][1].hour, day |-> chk[p][1].day]

\* a full entry reset by a change of the day alone, and one by a change of the
\* hour alone
C4_Witness ==
    \E p, q \in Admissions :
        /\ DayChanged(chk[p][1]) /\ ~HourChanged(chk[p][1])
        /\ chk[p][1].before[1].count = chk[p][1].limit
        /\ HourChanged(chk[q][1]) /\ ~DayChanged(chk[q][1])
        /\ chk[q][1].before[1].count = chk[q][1].limit

\* C5: every successful response and every rate-limited response carries the
\* four rate-status fields: quota, remaining, reset time and tier name
C5_AllRateFields ==
    \A p \in Done :
        resp[p][1].status \in {200, 429} => RateHeaders \subseteq DOMAIN resp[p][1].headers

\* C5, as amended: the successful responses of the rate-checked operations carry
\* the four fields, with the quota, the remaining quota and the tier name of
\* the request's check; a rate-limited response carries the quota,
\* remaining = 0 and the reset time, and no tier field; the health response
\* carries none of them
C5_RateFieldsWhereChecked ==
    \A p \in Done :
        /\ resp[p][1].status = 200 /\ req[p].op \in CheckedOps =>
            /\ DOMAIN resp[p][1].headers = RateHeaders
            /\ resp[p][1].headers[H_Limit] = to_string(chk[p][1].result.limit)
            /\ resp[p][1].headers[H_Remaining] = to_string(chk[p][1].result.remaining)
            /\ resp[p][1].headers[H_Tier] = name(get_tier(req[p].sub))
        /\ resp[p][1].status = 429 =>
            /\ DOMAIN resp[p][1].headers = RateHeaders \ {H_Tier}
            /\ resp[p][1].headers[H_Remaining] = <<"0">>
        /\ req[p].op = "health" =>
            /\ resp[p][1].status = 200
            /\ DOMAIN resp[p][1].headers = {}

C5_Witness ==
    \E p \in Done :
        /\ req[p].op = "search"
        /\ resp[p][1].status = 200
        /\ resp[p][1].headers[H_Tier] = <<"p", "r", "o">>
        /\ resp[p][1].headers[H_Remaining] = <<"0">>

\* C6: the response to a request whose backend call came back with an error
\* body is the same whatever that body is
C6_ErrorBodyNotExposed ==
    \A p \in Done :
        reply[p] # None /\ reply[p][1].kind = "error" =>
            \A b \in ErrorBodies :
                resp[p][1] = handle(req[p], chk[p][1], [reply[p][1] EXCEPT !.text = b])

\* the user and the tier a check was called with
PairOf(p) == <<get_user(req[p].user), chk[p][1].tier>>

\* C17: checks of distinct (user, tier) pairs use distinct keys; a check
\* changes no entry but that of its key; and a rejection is decided by the
\* count stored for its own key: it found that count at the tier's quota
C17_KeysIndependent ==
    /\ [](\A p, q \in Checks : PairOf(p) # PairOf(q) => chk[p][1].key # chk[q][1].key)
    /\ [](\A p \in Rejections :
            /\ chk[p][1].before # None
            /\ chk[p][1].before[1].count >= chk[p][1].limit
            /\ chk[p][1].limit = hourly_limit(PairOf(p)[2], Config))
    /\ [][\A p \in Procs :
            pc[p] = "locking" /\ pc'[p] = "checked" =>
                \A k \in DOMAIN entries \ {chk'[p][1].key} :
                    k \in DOMAIN entries' /\ entries'[k] = entries[k]]_vars

\* user a has used up the Basic quota, and a check of user a under Pro in the
\* same hour is admitted with Pro's whole quota before it
C17_Witness ==
    \E p \in Admissions :
        /\ PairOf(p) = <<(<<"a">>), "Pro">>
        /\ chk[p][1].result.remaining = RateLimitPro - 1
        /\ Key(<<"a">>, "Basic") \in DOMAIN entries
        /\ entries[Key(<<"a">>, "Basic")] =
                [count |-> RateLimitBasic, hour |-> chk[p][1].hour, day |-> chk[p][1].day]
        /\ \E q \in Rejections : PairOf(q) = <<(<<"a">>), "Basic">>

\* C19: the count a check decides on is the number of requests admitted for its
\* key in the calendar hour of the check, whatever time has passed since the
\* key's last check
C19_CountOfThisHourOnly ==
    \A p \in Procs :
        pc[p] = "checked" =>
            chk[p][1].after.count = TallyOf(chk[p][1].key, chk[p][1].win).admitted

-----------------------------------------------------------------------------
(* Claims about the service methods *)

\* the articles a search or a lookup returned, and the articles mapped from the
\* backend's document that they stand for
Returned ==
    CASE svcOp = "search" -> svcOut[1].articles
      [] svcOp = "article" /\ svcOut[1].ok -> <<svcOut[1].article>>
      [] OTHER -> <<>>

Mapped ==
    CASE svcOp = "search" -> parse_hits(json[1])
      [] svcOp = "article" /\ parse_hits(json[1]) # <<>> -> <<parse_hits(json[1])[1]>>
      [] OTHER -> <<>>

EntitiesOf(a) == IF a.annotate = None THEN None ELSE a.annotate[1].entities
SentimentOf(a) == IF a.annotate = None THEN None ELSE a.annotate[1].sentiment
EmotionOf(a) == IF a.annotate = None THEN None ELSE a.annotate[1].emotion

\* C11: every article returned by search or get-by-id stands for one mapped
\* article; under tier Mega its content and its entities are those of the
\* mapped article, under tier Basic it has no entities, and under every tier
\* its sentiment and its emotion are those of the mapped article
C11_GateByTier ==
    svcOut # None /\ svcOp \in {"search", "article"} =>
        /\ Len(Returned) = Len(Mapped)
        /\ \A i \in 1..Len(Returned) :
            /\ svcTier = "Mega" =>
                /\ Returned[i].content = Mapped[i].content
                /\ EntitiesOf(Returned[i]) = EntitiesOf(Mapped[i])
            /\ svcTier = "Basic" => EntitiesOf(Returned[i]) = None
            /\ SentimentOf(Returned[i]) = SentimentOf(Mapped[i])
            /\ EmotionOf(Returned[i]) = EmotionOf(Mapped[i])

\* a Basic search whose first article had entities and long content: it comes
\* out without the entities, cut, with its sentiment and emotion
C11_Witness ==
    /\ svcOut # None
    /\ svcOp = "search"
    /\ svcTier = "Basic"
    /\ Len(Mapped) >= 2
    /\ EntitiesOf(Mapped[1]) = Some(<<Entity>>)
    /\ EntitiesOf(Returned[1]) = None
    /\ SentimentOf(Returned[1]) = Some(<<"positive">>)
    /\ EmotionOf(Returned[1]) = Some(<<"joy">>)
    /\ Returned[1].content # Mapped[1].content

HitsOf(doc) == IF doc.hits.t = "array" THEN doc.hits.v ELSE <<>>

\* the hits whose _source is of the article shape
GoodHits(hits) == {i \in 1..Len(hits) : article_from_value(hits[i].hit_source).ok}

RankIn(S, i) == Cardinality({j \in S : j <= i})

\* C13: a search returns one article for each hit of the article shape, the
\* article mapped from that hit as its tier sees it, in the order of the hits;
\* the other hits are dropped, and the total it reports is the total the
\* backend reported, whatever the number of articles parsed
C13_TolerantMapping ==
    svcOut # None /\ svcOp = "search" =>
        \E hits \in {HitsOf(json[1])} :
            /\ Len(svcOut[1].articles) = Cardinality(GoodHits(hits))
            /\ \A i \in GoodHits(hits) :
                svcOut[1].articles[RankIn(GoodHits(hits), i)] =
                    gate_article(
                        [article_from_value(hits[i].hit_source).value
                            EXCEPT !.id = IF hits[i].hit_id.t = "string"
                                          THEN hits[i].hit_id.v ELSE <<>>],
                        svcTier)
            /\ json[1].total.t = "number" => svcOut[1].total = json[1].total.v[1]

\* three hits, the second without a _source: the first and the third are
\* returned, in that order, with the backend's total of 12
C13_Witness ==
    /\ svcOut # None
    /\ svcOp = "search"
    /\ svcTier = "Mega"
    /\ Len(HitsOf(json[1])) = 3
    /\ GoodHits(HitsOf(json[1])) = {1, 3}
    /\ HitsOf(json[1])[1] # HitsOf(json[1])[3]
    /\ Len(svcOut[1].articles) = 2
    /\ svcOut[1].articles[1].content = Some(LongContent)
    /\ svcOut[1].articles[2].content = Some(<<"a", "b">>)
    /\ svcOut[1].total = 12

ValidBucket(b) ==
    b.key.t = "string" /\ b.doc_count.t = "number" /\ b.doc_count.v[1] >= 0

ValidBuckets(j) == IF j.t = "array" THEN SelectSeq(j.v, ValidBucket) ELSE <<>>

ItemsOf(bs, category) ==
    [i \in 1..Len(bs) |->
        [keyword |-> bs[i].key.v, category |-> category, count |-> bs[i].doc_count.v[1]]]

\* one item per valid bucket, entities before tags, each in bucket order
Inserted(doc) ==
    ItemsOf(ValidBuckets(doc.entities), "entity") \o ItemsOf(ValidBuckets(doc.tags), "tag")

\* the place of the i-th inserted item: after the items of a greater count and
\* the items of the same count inserted before it
PlaceOf(ins, i) ==
    1 + Cardinality({j \in 1..Len(ins) :
                        \/ ins[j].count > ins[i].count
                        \/ ins[j].count = ins[i].count /\ j < i})

\* C14: the trending list has one item per valid entity bucket and one per
\* valid tag bucket, by descending count, and the items of one count are in
\* the order of insertion: entities before tags, each in bucket order
C14_TrendingOrder ==
    svcOut # None /\ svcOp = "trending" =>
        \E ins \in {Inserted(json[1])} :
            /\ Len(svcOut[1].items) = Len(ins)
            /\ \A i \in 1..Len(ins) : svcOut[1].items[PlaceOf(ins, i)] = ins[i]

\* the entity x and the tag x, both of count 5, behind the tag y of count 7
C14_Witness ==
    /\ svcOut # None
    /\ svcOp = "trending"
    /\ svcOut[1].items =
            <<[keyword |-> <<"y">>, category |-> "tag", count |-> 7],
              [keyword |-> <<"x">>, category |-> "entity", count |-> 5],
              [keyword |-> <<"x">>, category |-> "tag", count |-> 5]>>

-----------------------------------------------------------------------------
(* Claims about the handlers *)

\* C15: for the rate-checked operations the check precedes the backend call: a
\* request whose backend query was issued has an admitted check, and a request
\* whose check was rejected has issued no backend query, up to its response
C15_CheckBeforeBackend ==
    \A p \in Procs :
        req[p].op \in CheckedOps =>
            /\ reply[p] # None => p \in Admissions
            /\ p \in Rejections => reply[p] = None
            /\ pc[p] \in {"start", "locking"} => reply[p] = None /\ chk[p] = None

\* a rejected request answered with 429, no backend query issued
C15_Witness ==
    \E p \in Done :
        /\ req[p].op = "trending"
        /\ p \in Rejections
        /\ reply[p] = None
        /\ resp[p][1].status = 429

\* C16: an entry is changed by a check of its key and by nothing else, and
\* while it stays in its window its count never goes down: whatever becomes of
\* an admitted request (backend failure, NotFound, the caller gone), its
\* increment stays
C16_IncrementKept ==
    [][\A k \in DOMAIN entries :
        /\ k \in DOMAIN entries'
        /\ entries'[k].hour = entries[k].hour /\ entries'[k].day = entries[k].day
                => entries'[k].count >= entries[k].count
        /\ entries'[k] # entries[k] =>
                \E p \in Procs :
                    /\ pc[p] = "locking" /\ pc'[p] = "checked"
                    /\ chk'[p][1].key = k]_vars

\* an admitted request whose backend call failed or found nothing, answered,
\* with its increment in the entry of its key
C16_Witness ==
    \E p \in Done :
        /\ p \in Admissions
        /\ req[p].op = "article"
        /\ resp[p][1].status \in {404, 500}
        /\ entries[chk[p][1].key] = chk[p][1].after
        /\ entries[chk[p][1].key].count = CountOf(chk[p][1].before) + 1

\* C18: an admitted search that the backend answered gets a success envelope
\* whose total_pages is 0 for total = 0 and the least number of pages of the
\* effective size that hold the total for total > 0, whatever size was asked
\* for, 0 included
C18_TotalPages ==
    \A p \in Done :
        req[p].op = "search" /\ reply[p] # None /\ reply[p][1].kind = "json" =>
            /\ resp[p][1].status = 200
            /\ resp[p][1].body.success
            /\ \E m \in {resp[p][1].body.meta[1]} :
                /\ m.total = reply[p][1].total
                /\ m.total = 0 => m.total_pages = 0
                /\ m.total > 0 =>
                    /\ m.size > 0
                    /\ m.total_pages * m.size >= m.total
                    /\ (m.total_pages - 1) * m.size < m.total

====
